---- MODULE Spec2Model ----
(***************************************************************************)
(* Fleet_Dynamic_Dispatch.py: the fuel/speed cost model                    *)
(* (get_optimal_speed, calculate_fuel_cost), the console grade prompt      *)
(* (get_user_grade_input) and the dispatch optimizer (opt_fleet_dispatch). *)
(*                                                                         *)
(* Python floats are modelled as exact rationals [k, n, d] (k = "num"),    *)
(* plus the special values nan, inf and None; rounding is not modelled.    *)
(***************************************************************************)
EXTENDS Integers, Sequences, FiniteSets, TLC

VARIABLES
    \* ---- one call of get_optimal_speed / calculate_fuel_cost
    distance_km, grade_percent, speed_ret, fuel_ret,
    \* ---- one call of get_user_grade_input
    gpc, rise, run, grade, printed, rounds,
    \* ---- one call of opt_fleet_dispatch
    trucks, shovels, pc, cursor, costs, speed_log, prob, x, status,
    total_fuel, rows, error

cost_vars == <<distance_km, grade_percent, speed_ret, fuel_ret>>
grade_vars == <<gpc, rise, run, grade, printed, rounds>>
dispatch_vars == <<trucks, shovels, pc, cursor, costs, speed_log, prob, x,
                   status, total_fuel, rows, error>>
vars == <<cost_vars, grade_vars, dispatch_vars>>

----------------------------------------------------------------------------
\* Bounds of the model.

\* calculate_fuel_cost is called with distances in -MaxDistance..MaxDistance
MaxDistance == 6
\* ... and grades in -MaxGrade..MaxGrade
MaxGrade == 30
\* shovels carry a max_queue in -1..MaxQueue
MaxQueue == 2
\* typed console entries are at most MaxEntryLen characters long
MaxEntryLen == 3
\* the prompt loop is followed for at most MaxRounds input rounds
MaxRounds == 3

----------------------------------------------------------------------------
\* Float values and their arithmetic.

Abs(a) == IF a < 0 THEN -a ELSE a

RECURSIVE GCD(_, _)
GCD(a, b) == IF b = 0 THEN a ELSE GCD(b, a % b)

\* the float n/d (d # 0), in lowest terms with a positive denominator
Num(n, d) ==
    LET s == IF d < 0 THEN -1 ELSE 1
        g == GCD(Abs(n), Abs(d))
    IN  [k |-> "num", n |-> (s * n) \div g, d |-> (s * d) \div g]

Int2F(i) == Num(i, 1)
NaN == [k |-> "nan", n |-> 0, d |-> 1]
Inf == [k |-> "inf", n |-> 1, d |-> 1]
None == [k |-> "none", n |-> 0, d |-> 1]

IsNum(a) == a.k = "num"

FAdd(a, b) == Num(a.n * b.d + b.n * a.d, a.d * b.d)
FSub(a, b) == Num(a.n * b.d - b.n * a.d, a.d * b.d)
FMul(a, b) ==
    IF a.k = "nan" \/ b.k = "nan" THEN NaN ELSE Num(a.n * b.n, a.d * b.d)
\* a / b for b # 0; nan propagates
FDiv(a, b) ==
    IF a.k = "nan" \/ b.k = "nan" THEN NaN ELSE Num(a.n * b.d, a.d * b.n)
\* comparisons with nan are False
FLe(a, b) == IsNum(a) /\ IsNum(b) /\ a.n * b.d <= b.n * a.d
FLt(a, b) == IsNum(a) /\ IsNum(b) /\ a.n * b.d < b.n * a.d
FGt(a, b) == FLt(b, a)

----------------------------------------------------------------------------
\* PART 1: the physics engine.

grades == <<0, 5, 10, 15>>
speeds == <<40, 25, 12, 8>>

\* numpy.searchsorted(xs, v), side "left": the number of entries below v
searchsorted(xs, v) == Cardinality({i \in 1..Len(xs) : xs[i] < v})

clip(v, lo, hi) == IF v < lo THEN lo ELSE IF v > hi THEN hi ELSE v

\* interp1d(grades, speeds, kind='linear', fill_value="extrapolate")(v):
\* the segment is chosen by searchsorted clipped to [1, len-1], and its line
\* is evaluated at v whether or not v lies inside the table.
speed_curve(v) ==
    LET hi == clip(searchsorted(grades, v), 1, Len(grades) - 1) + 1
        lo == hi - 1
        slope == Num(speeds[hi] - speeds[lo], grades[hi] - grades[lo])
    IN  FAdd(FMul(slope, Int2F(v - grades[lo])), Int2F(speeds[lo]))

\* the same curve clamped to the table's end values, as numpy.interp would
speed_curve_clamped(v) ==
    speed_curve(clip(v, grades[1], grades[Len(grades)]))

get_optimal_speed(g) == speed_curve(g)

max(a, b) == IF b > a THEN b ELSE a

\* the return value of calculate_fuel_cost: the tuple (fuel, speed), or the
\* bare float inf of line 33
Tuple(fuel, speed) == [tag |-> "tuple", fuel |-> fuel, speed |-> speed]
BareFloat(v) == [tag |-> "float", fuel |-> v, speed |-> None]
NoReturn == [tag |-> "none", fuel |-> None, speed |-> None]

\* calculate_fuel_cost with the speed looked up at the unclamped grade
calculate_fuel_cost_rawgrade(dist, g) ==
    LET grade_used == max(g, 0)
        fuel_burn_rate_lph == 180 + (25 * grade_used) + (8 * (grade_used * grade_used))
        opt_speed_kmh == get_optimal_speed(g)
    IN  IF FLe(opt_speed_kmh, Int2F(0))
        THEN BareFloat(Inf)
        ELSE Tuple(FMul(Int2F(fuel_burn_rate_lph), FDiv(Int2F(dist), opt_speed_kmh)),
                   opt_speed_kmh)

\* calculate_fuel_cost with the travel time taken as distance * speed
calculate_fuel_cost_timesspeed(dist, g) ==
    LET grade_used == max(g, 0)
        fuel_burn_rate_lph == 180 + (25 * grade_used) + (8 * (grade_used * grade_used))
        opt_speed_kmh == get_optimal_speed(grade_used)
    IN  IF FLe(opt_speed_kmh, Int2F(0))
        THEN BareFloat(Inf)
        ELSE Tuple(FMul(Int2F(fuel_burn_rate_lph), FMul(Int2F(dist), opt_speed_kmh)),
                   opt_speed_kmh)

calculate_fuel_cost(dist, g) ==
    LET grade_used == max(g, 0)
        fuel_burn_rate_lph == 180 + (25 * grade_used) + (8 * (grade_used * grade_used))
        opt_speed_kmh == get_optimal_speed(grade_used)
        travel_time_hours == FDiv(Int2F(dist), opt_speed_kmh)
    IN  IF FLe(opt_speed_kmh, Int2F(0))
        THEN BareFloat(Inf)
        ELSE Tuple(FMul(Int2F(fuel_burn_rate_lph), travel_time_hours),
                   opt_speed_kmh)

----------------------------------------------------------------------------
\* Idle values of the three groups of variables.

CostIdle ==
    /\ distance_km = 0 /\ grade_percent = 0
    /\ speed_ret = None /\ fuel_ret = NoReturn

GradeIdle ==
    /\ gpc = "idle" /\ rise = None /\ run = None /\ grade = None
    /\ printed = "" /\ rounds = 0

DispatchIdle ==
    /\ trucks = <<>> /\ shovels = <<>> /\ pc = "idle" /\ cursor = 0
    /\ costs = <<>> /\ speed_log = <<>> /\ prob = <<>> /\ x = <<>>
    /\ status = "" /\ total_fuel = None /\ rows = <<>> /\ error = ""

----------------------------------------------------------------------------
\* The cost model called on its own: SpecCost.

InitCost ==
    /\ distance_km \in (-MaxDistance)..MaxDistance
    /\ grade_percent \in (-MaxGrade)..MaxGrade
    /\ speed_ret = None /\ fuel_ret = NoReturn
    /\ GradeIdle /\ DispatchIdle

CallGetOptimalSpeed ==
    /\ speed_ret = None
    /\ speed_ret' = get_optimal_speed(grade_percent)
    /\ UNCHANGED <<distance_km, grade_percent, fuel_ret, grade_vars, dispatch_vars>>

CallCalculateFuelCost ==
    /\ fuel_ret = NoReturn
    /\ fuel_ret' = calculate_fuel_cost(distance_km, grade_percent)
    /\ UNCHANGED <<distance_km, grade_percent, speed_ret, grade_vars, dispatch_vars>>

NextCost == CallGetOptimalSpeed \/ CallCalculateFuelCost

SpecCost == InitCost /\ [][NextCost]_vars

\* C7: get_optimal_speed is the piecewise-linear curve through (0,40), (5,25),
\* (10,12), (15,8), continued along the first and last segments outside
\* [0,15] without clamping: 40, 25, 12, 8 at grades 0, 5, 10, 15 and 4 at 20.
C7_SpeedCurve ==
    speed_ret # None =>
        LET g == grade_percent IN
        /\ g <= 5 => speed_ret = Num(200 - 15 * g, 5)
        /\ (g >= 5 /\ g <= 10) => speed_ret = Num(125 - 13 * (g - 5), 5)
        /\ g >= 10 => speed_ret = Num(60 - 4 * (g - 10), 5)
        /\ g = 0 => speed_ret = Int2F(40)
        /\ g = 5 => speed_ret = Int2F(25)
        /\ g = 10 => speed_ret = Int2F(12)
        /\ g = 15 => speed_ret = Int2F(8)
        /\ g = 20 => speed_ret = Int2F(4)

C7_Witness == grade_percent = 20 /\ speed_ret = Int2F(4)

\* C8: for every distance d >= 0 and every negative grade, calculate_fuel_cost
\* returns what it returns at grade 0: (180 * d / 40 liters, 40 km/h).
C8_DownhillIsFlat ==
    (fuel_ret # NoReturn /\ distance_km >= 0 /\ grade_percent < 0) =>
        fuel_ret = Tuple(Num(180 * distance_km, 40), Int2F(40))

C8_Witness ==
    /\ distance_km = 2 /\ grade_percent = -5
    /\ fuel_ret = Tuple(Int2F(9), Int2F(40))

\* C5: calculate_fuel_cost rejects every negative distance: called with
\* distance_km < 0 it never returns a value (neither a tuple nor a float).
C5_NegativeDistanceRejected ==
    (fuel_ret # NoReturn /\ distance_km < 0) =>
        fuel_ret.tag \notin {"tuple", "float"}

----------------------------------------------------------------------------
\* get_user_grade_input called on its own: SpecGrade.

\* the characters a typed entry is made of
Alphabet == {"-", "0", "1", "5", "n", "a"}
Digits == {"0", "1", "5"}
Entries == UNION {[1..len -> Alphabet] : len \in 0..MaxEntryLen}

ValueError == [k |-> "ValueError", n |-> 0, d |-> 1]

DigitVal(c) == CASE c = "0" -> 0 [] c = "1" -> 1 [] c = "5" -> 5

RECURSIVE Decimal(_)
Decimal(s) ==
    IF s = <<>> THEN 0
    ELSE 10 * Decimal(SubSeq(s, 1, Len(s) - 1)) + DigitVal(s[Len(s)])

\* float(entry) on entries over Alphabet: an optional sign, then either a
\* non-empty run of digits or "nan"; anything else raises ValueError
float(entry) ==
    LET signed == entry # <<>> /\ entry[1] = "-"
        body == IF signed THEN Tail(entry) ELSE entry
    IN  IF body = <<"n", "a", "n">> THEN NaN
        ELSE IF body # <<>> /\ \A i \in 1..Len(body) : body[i] \in Digits
        THEN Int2F(IF signed THEN -Decimal(body) ELSE Decimal(body))
        ELSE ValueError

InitGrade ==
    /\ gpc = "rise" /\ rise = None /\ run = None /\ grade = None
    /\ printed = "--- Configure Road ---" /\ rounds = 0
    /\ CostIdle /\ DispatchIdle

\* line 48, the entry parses
ReadRise ==
    /\ gpc = "rise" /\ rounds < MaxRounds
    /\ \E entry \in Entries :
        /\ float(entry) # ValueError
        /\ rise' = float(entry)
    /\ gpc' = "run"
    /\ UNCHANGED <<run, grade, printed, rounds, cost_vars, dispatch_vars>>

\* line 48 raises, lines 58-59
RiseValueError ==
    /\ gpc = "rise" /\ rounds < MaxRounds
    /\ \E entry \in Entries : float(entry) = ValueError
    /\ printed' = "Invalid input. Please enter numbers."
    /\ rounds' = rounds + 1
    /\ UNCHANGED <<gpc, rise, run, grade, cost_vars, dispatch_vars>>

\* line 49 raises, lines 58-59
RunValueError ==
    /\ gpc = "run"
    /\ \E entry \in Entries : float(entry) = ValueError
    /\ printed' = "Invalid input. Please enter numbers."
    /\ rounds' = rounds + 1
    /\ gpc' = "rise"
    /\ UNCHANGED <<rise, run, grade, cost_vars, dispatch_vars>>

\* lines 49-53
RunNotPositive ==
    /\ gpc = "run"
    /\ \E entry \in Entries :
        /\ float(entry) # ValueError
        /\ FLe(float(entry), Int2F(0))
        /\ run' = float(entry)
    /\ printed' = "Error: Distance must be positive."
    /\ rounds' = rounds + 1
    /\ gpc' = "rise"
    /\ UNCHANGED <<rise, grade, cost_vars, dispatch_vars>>

\* lines 49-57
ReturnGrade ==
    /\ gpc = "run"
    /\ \E entry \in Entries :
        /\ float(entry) # ValueError
        /\ ~FLe(float(entry), Int2F(0))
        /\ run' = float(entry)
        /\ grade' = FMul(FDiv(rise, float(entry)), Int2F(100))
    /\ printed' = "-> Calculated Grade"
    /\ gpc' = "returned"
    /\ UNCHANGED <<rise, rounds, cost_vars, dispatch_vars>>

NextGrade ==
    \/ ReadRise
    \/ RiseValueError
    \/ RunValueError
    \/ RunNotPositive
    \/ ReturnGrade

SpecGrade == InitGrade /\ [][NextGrade]_vars

\* C10: get_user_grade_input returns only after a round in which rise and run
\* both parsed as numbers and run > 0, and the grade returned is
\* (rise / run) * 100 of that round.
C10_ReturnsOnlyPositiveRun ==
    gpc = "returned" =>
        /\ rise # ValueError /\ run # ValueError
        /\ FGt(run, Int2F(0))
        /\ grade = FMul(FDiv(rise, run), Int2F(100))

----------------------------------------------------------------------------
\* PART 2 and 3: opt_fleet_dispatch, on the fleet of the simulation and
\* variations of its shovel data: Spec.  A call is given the first n >= 1
\* trucks of the fleet and the first m >= 1 shovels, so that every constraint
\* handed to the solver has a variable in it; identifiers are distinct.

truck_fleet == <<[id |-> "Truck_1"], [id |-> "Truck_2"], [id |-> "Truck_3"]>>

shovel_ids == <<"Shovel_A", "Shovel_B">>

distance_A == [t \in {"Truck_1", "Truck_2", "Truck_3"} |->
                 CASE t = "Truck_1" -> 2 [] t = "Truck_2" -> 5 [] t = "Truck_3" -> 3]
distance_B == [t \in {"Truck_1", "Truck_2", "Truck_3"} |->
                 CASE t = "Truck_1" -> 8 [] t = "Truck_2" -> 1 [] t = "Truck_3" -> 9]

\* a table with a negative distance, and one with entries missing
distance_negative == [t \in {"Truck_1", "Truck_2", "Truck_3"} |->
                 CASE t = "Truck_1" -> -1 [] t = "Truck_2" -> 4 [] t = "Truck_3" -> 2]
distance_partial == [t \in {"Truck_1"} |-> 3]

DistanceTables == {distance_A, distance_B, distance_negative, distance_partial}

DispatchGrades == {-5, 0, 10, 25}

ShovelConfigs ==
    [max_queue : (-1)..MaxQueue, grade_percent : DispatchGrades,
     distance_from_trucks : DistanceTables]

\* the (truck, shovel) index pairs in the order of "for t in trucks for s in shovels"
Pairs ==
    [p \in 1..(Len(trucks) * Len(shovels)) |->
        <<((p - 1) \div Len(shovels)) + 1, ((p - 1) % Len(shovels)) + 1>>]

Key(p) == <<trucks[Pairs[p][1]].id, shovels[Pairs[p][2]].id>>

\* line 75: the keys of the decision variables x
routes == {Key(p) : p \in 1..Len(Pairs)}

\* d[key] = value on a dict
SetItem(d, key, value) ==
    [q \in (DOMAIN d) \cup {key} |-> IF q = key THEN value ELSE d[q]]

RECURSIVE FSum(_)
FSum(seq) == IF seq = <<>> THEN Int2F(0) ELSE FAdd(Head(seq), FSum(Tail(seq)))

\* pulp.lpSum of the terms coef * x[var]: the coefficient of every variable
lpSum(terms) ==
    [r \in routes |->
        FSum([i \in 1..Len(terms) |->
                IF terms[i].var = r THEN terms[i].coef ELSE Int2F(0)])]

\* the objective with the speeds for coefficients
Objective_speeds ==
    lpSum([p \in 1..Len(Pairs) |-> [var |-> Key(p), coef |-> speed_log[Key(p)]]])

\* lines 95-96
Objective ==
    lpSum([p \in 1..Len(Pairs) |-> [var |-> Key(p), coef |-> costs[Key(p)]]])

\* constraint A as "at most one shovel"
ConstraintA_atmost(t) ==
    [expr |-> lpSum([j \in 1..Len(shovels) |->
                       [var |-> <<t.id, shovels[j].id>>, coef |-> Int2F(1)]]),
     sense |-> "<=", rhs |-> Int2F(1)]

\* line 101
ConstraintA(t) ==
    [expr |-> lpSum([j \in 1..Len(shovels) |->
                       [var |-> <<t.id, shovels[j].id>>, coef |-> Int2F(1)]]),
     sense |-> "==", rhs |-> Int2F(1)]

\* constraint B with one place more than max_queue
ConstraintB_offbyone(s) ==
    [expr |-> lpSum([i \in 1..Len(trucks) |->
                       [var |-> <<trucks[i].id, s.id>>, coef |-> Int2F(1)]]),
     sense |-> "<=", rhs |-> Int2F(s.max_queue + 1)]

\* line 106
ConstraintB(s) ==
    [expr |-> lpSum([i \in 1..Len(trucks) |->
                       [var |-> <<trucks[i].id, s.id>>, coef |-> Int2F(1)]]),
     sense |-> "<=", rhs |-> Int2F(s.max_queue)]

\* The solver (PULP_CBC_CMD) on the problem built: the 0/1 values of the
\* variables that satisfy every constraint, and among them those of least
\* objective value.
RECURSIVE Value(_, _, _)
Value(expr, v, rs) ==
    IF rs = {} THEN Int2F(0)
    ELSE LET r == CHOOSE r \in rs : TRUE
         IN  FAdd(FMul(expr[r], Int2F(v[r])), Value(expr, v, rs \ {r}))

Satisfies(v, c) ==
    LET lhs == Value(c.expr, v, DOMAIN c.expr)
    IN  IF c.sense = "==" THEN lhs = c.rhs ELSE FLe(lhs, c.rhs)

Feasible(p) ==
    {v \in [DOMAIN p.objective -> {0, 1}] :
        \A i \in 1..Len(p.constraints) : Satisfies(v, p.constraints[i])}

OptimalSolutions(p) ==
    LET F == Feasible(p)
        obj == [v \in F |-> Value(p.objective, v, DOMAIN p.objective)]
    IN  {v \in F : \A w \in F : ~FLt(obj[w], obj[v])}

\* pulp.LpStatus
LpStatus(code) == CASE code = 1 -> "Optimal" [] code = -1 -> "Infeasible"

Init ==
    /\ \E n \in 1..Len(truck_fleet) : trucks = SubSeq(truck_fleet, 1, n)
    /\ \E m \in 1..Len(shovel_ids) : \E cfg \in [1..m -> ShovelConfigs] :
        shovels = [j \in 1..m |->
                     [id |-> shovel_ids[j],
                      max_queue |-> cfg[j].max_queue,
                      grade_percent |-> cfg[j].grade_percent,
                      distance_from_trucks |-> cfg[j].distance_from_trucks]]
    /\ pc = "costs" /\ cursor = 1
    /\ costs = <<>> /\ speed_log = <<>> /\ prob = <<>> /\ x = <<>>
    /\ status = "" /\ total_fuel = None /\ rows = <<>> /\ error = ""
    /\ CostIdle /\ GradeIdle

\* lines 82-91, one pass of the inner loop
ComputeCost ==
    /\ pc = "costs" /\ cursor <= Len(Pairs)
    /\ LET t == trucks[Pairs[cursor][1]]
           s == shovels[Pairs[cursor][2]]
           ret == calculate_fuel_cost(s.distance_from_trucks[t.id], s.grade_percent)
       IN  /\ t.id \in DOMAIN s.distance_from_trucks
           /\ ret.tag = "tuple"
           /\ costs' = SetItem(costs, <<t.id, s.id>>, ret.fuel)
           /\ speed_log' = SetItem(speed_log, <<t.id, s.id>>, ret.speed)
    /\ cursor' = cursor + 1
    /\ UNCHANGED <<trucks, shovels, pc, prob, x, status, total_fuel, rows, error,
                   cost_vars, grade_vars>>

\* line 84: the shovel has no distance for the truck
DistanceKeyError ==
    /\ pc = "costs" /\ cursor <= Len(Pairs)
    /\ trucks[Pairs[cursor][1]].id
          \notin DOMAIN shovels[Pairs[cursor][2]].distance_from_trucks
    /\ pc' = "raised" /\ error' = "KeyError"
    /\ UNCHANGED <<trucks, shovels, cursor, costs, speed_log, prob, x, status,
                   total_fuel, rows, cost_vars, grade_vars>>

\* line 88: calculate_fuel_cost returned the bare float of line 33, which
\* does not unpack into (fuel_cost, opt_speed)
UnpackTypeError ==
    /\ pc = "costs" /\ cursor <= Len(Pairs)
    /\ LET t == trucks[Pairs[cursor][1]]
           s == shovels[Pairs[cursor][2]]
       IN  /\ t.id \in DOMAIN s.distance_from_trucks
           /\ calculate_fuel_cost(s.distance_from_trucks[t.id], s.grade_percent).tag
                 = "float"
    /\ pc' = "raised" /\ error' = "TypeError"
    /\ UNCHANGED <<trucks, shovels, cursor, costs, speed_log, prob, x, status,
                   total_fuel, rows, cost_vars, grade_vars>>

\* lines 93-106
BuildProblem ==
    /\ pc = "costs" /\ cursor > Len(Pairs)
    /\ prob' = [objective |-> Objective,
                constraints |->
                    [i \in 1..Len(trucks) |-> ConstraintA(trucks[i])]
                    \o [j \in 1..Len(shovels) |-> ConstraintB(shovels[j])]]
    /\ pc' = "solve"
    /\ UNCHANGED <<trucks, shovels, cursor, costs, speed_log, x, status,
                   total_fuel, rows, error, cost_vars, grade_vars>>

\* lines 109-112, the solver finds an optimum
SolveOptimal ==
    /\ pc = "solve"
    /\ \E v \in OptimalSolutions(prob) : x' = v
    /\ status' = LpStatus(1)
    /\ pc' = "report"
    /\ UNCHANGED <<trucks, shovels, cursor, costs, speed_log, prob,
                   total_fuel, rows, error, cost_vars, grade_vars>>

\* lines 109-112, the solver finds the constraints unsatisfiable
SolveInfeasible ==
    /\ pc = "solve"
    /\ Feasible(prob) = {}
    /\ status' = LpStatus(-1)
    /\ pc' = "report"
    /\ UNCHANGED <<trucks, shovels, cursor, costs, speed_log, prob, x,
                   total_fuel, rows, error, cost_vars, grade_vars>>

\* lines 115-127
ReportOptimal ==
    /\ pc = "report" /\ status = "Optimal"
    /\ total_fuel' = Value(prob.objective, x, DOMAIN prob.objective)
    /\ rows' = LET all == [p \in 1..Len(Pairs) |->
                             [truck |-> Key(p)[1], destination |-> Key(p)[2],
                              chosen |-> x[Key(p)],
                              speed |-> speed_log[Key(p)], fuel |-> costs[Key(p)]]]
               IN  SelectSeq(all, LAMBDA row : row.chosen = 1)
    /\ pc' = "done"
    /\ UNCHANGED <<trucks, shovels, cursor, costs, speed_log, prob, x, status,
                   error, cost_vars, grade_vars>>

\* lines 128-129
ReportNoSolution ==
    /\ pc = "report" /\ status # "Optimal"
    /\ pc' = "done"
    /\ UNCHANGED <<trucks, shovels, cursor, costs, speed_log, prob, x, status,
                   total_fuel, rows, error, cost_vars, grade_vars>>

Next ==
    \/ ComputeCost
    \/ DistanceKeyError
    \/ UnpackTypeError
    \/ BuildProblem
    \/ SolveOptimal
    \/ SolveInfeasible
    \/ ReportOptimal
    \/ ReportNoSolution

Spec == Init /\ [][Next]_vars

----------------------------------------------------------------------------
\* What the claims about opt_fleet_dispatch speak of.

Terminated == pc \in {"done", "raised"}

\* an assignment gives every truck (by position) one shovel (by position)
Assignments == [1..Len(trucks) -> 1..Len(shovels)]

Load(a, j) == Cardinality({i \in 1..Len(trucks) : a[i] = j})

RespectsQueues(a) == \A j \in 1..Len(shovels) : Load(a, j) <= shovels[j].max_queue

AssignmentCost(a) ==
    FSum([i \in 1..Len(trucks) |-> costs[<<trucks[i].id, shovels[a[i]].id>>]])

RECURSIVE IntSum(_)
IntSum(seq) == IF seq = <<>> THEN 0 ELSE Head(seq) + IntSum(Tail(seq))

QueueTotal == IntSum([j \in 1..Len(shovels) |-> shovels[j].max_queue])

RowsOfTruck(t) == {r \in 1..Len(rows) : rows[r].truck = t.id}
RowsToShovel(s) == {r \in 1..Len(rows) : rows[r].destination = s.id}

\* C1: whenever status Optimal is reported, every truck has exactly one route
\* with decision value 1 (and one row of the report), and no shovel is given
\* more trucks than its max_queue.
C1_OptimalIsAnAssignment ==
    (pc = "done" /\ status = "Optimal") =>
        /\ \A i \in 1..Len(trucks) :
            /\ Cardinality({j \in 1..Len(shovels) :
                              x[<<trucks[i].id, shovels[j].id>>] = 1}) = 1
            /\ Cardinality(RowsOfTruck(trucks[i])) = 1
        /\ \A j \in 1..Len(shovels) :
            Cardinality(RowsToShovel(shovels[j])) <= shovels[j].max_queue

C1_Witness ==
    /\ pc = "done" /\ status = "Optimal"
    /\ Len(trucks) = 3 /\ Len(shovels) = 2
    /\ shovels[1].max_queue = 1
    /\ Cardinality(RowsToShovel(shovels[1])) = 1
    /\ Cardinality(RowsToShovel(shovels[2])) = 2

\* C2: whenever status Optimal is reported, the total fuel reported is the
\* sum of the costs of the chosen routes, and no assignment of every truck to
\* one shovel that respects every max_queue costs strictly less.
C2_TotalIsMinimum ==
    (pc = "done" /\ status = "Optimal") =>
        /\ total_fuel = FSum([r \in 1..Len(rows) |-> rows[r].fuel])
        /\ \A a \in Assignments :
            RespectsQueues(a) => ~FLt(AssignmentCost(a), total_fuel)

C2_Witness ==
    /\ pc = "done" /\ status = "Optimal"
    /\ Len(trucks) = 3 /\ Len(shovels) = 2
    /\ \E a \in Assignments :
        RespectsQueues(a) /\ FLt(total_fuel, AssignmentCost(a))
    /\ \E a \in Assignments :
        ~RespectsQueues(a) /\ FLt(AssignmentCost(a), total_fuel)

\* C3: when the max_queue values add up to less than the number of trucks, or
\* no assignment respects them, a call that has ended has not reported
\* Optimal, has printed no assignment row and no total fuel, and a call that
\* ran to its report has reported Infeasible.
C3_InfeasibleIsReported ==
    (Terminated /\ (QueueTotal < Len(trucks)
                      \/ ~\E a \in Assignments : RespectsQueues(a))) =>
        /\ status # "Optimal"
        /\ rows = <<>>
        /\ total_fuel = None
        /\ pc = "done" => status = "Infeasible"

C3_Witness ==
    /\ pc = "done" /\ status = "Infeasible"
    /\ Len(trucks) = 3 /\ Len(shovels) = 2
    /\ shovels[1].max_queue = 1 /\ shovels[2].max_queue = 1

\* the scenario of the simulation: three trucks, shovels A and B of capacity
\* 2 at grade 0, with the distances of the simulation data
Scenario ==
    /\ trucks = truck_fleet
    /\ Len(shovels) = 2
    /\ \A j \in 1..2 : shovels[j].max_queue = 2 /\ shovels[j].grade_percent = 0
    /\ shovels[1].distance_from_trucks = distance_A
    /\ shovels[2].distance_from_trucks = distance_B

\* C9: in the scenario the call reports Optimal with Truck_2 sent to Shovel_B,
\* Truck_1 and Truck_3 to Shovel_A, every route at 40 km/h, and 27 liters.
C9_Scenario ==
    Scenario =>
        /\ pc # "raised"
        /\ pc \in {"report", "done"} => status = "Optimal"
        /\ pc = "done" =>
            /\ total_fuel = Int2F(27)
            /\ rows = <<[truck |-> "Truck_1", destination |-> "Shovel_A", chosen |-> 1,
                         speed |-> Int2F(40), fuel |-> Int2F(9)],
                        [truck |-> "Truck_2", destination |-> "Shovel_B", chosen |-> 1,
                         speed |-> Int2F(40), fuel |-> Num(9, 2)],
                        [truck |-> "Truck_3", destination |-> "Shovel_A", chosen |-> 1,
                         speed |-> Int2F(40), fuel |-> Num(27, 2)]>>

C9_Witness == Scenario /\ pc = "done" /\ total_fuel = Int2F(27)

\* a shovel whose optimal speed is <= 0
Degenerate(s) == FLe(get_optimal_speed(max(s.grade_percent, 0)), Int2F(0))

AllDistancesKnown ==
    \A i \in 1..Len(trucks) : \A j \in 1..Len(shovels) :
        trucks[i].id \in DOMAIN shovels[j].distance_from_trucks

\* C4: a shovel whose optimal speed is <= 0 is an infinite-cost route and not
\* a failure: when the other shovels have room for every truck, the call
\* completes, reports Optimal and sends no truck to that shovel.
C4_DegenerateSpeedIsRoutedAround ==
    ( /\ Terminated /\ AllDistancesKnown /\ Len(trucks) > 0
      /\ \E j \in 1..Len(shovels) : Degenerate(shovels[j])
      /\ \E a \in Assignments :
            RespectsQueues(a) /\ \A i \in 1..Len(trucks) : ~Degenerate(shovels[a[i]]) )
    => /\ pc = "done" /\ status = "Optimal"
       /\ \A j \in 1..Len(shovels) :
            Degenerate(shovels[j]) => RowsToShovel(shovels[j]) = {}

\* C6: a shovel with a max_queue of 0 or less is rejected as invalid input:
\* the call never runs to its report, optimal or infeasible, with one.
C6_NonPositiveQueueRejected ==
    pc = "done" => \A j \in 1..Len(shovels) : shovels[j].max_queue > 0

====
